---------------------------- MODULE Spec2Model ----------------------------
(***************************************************************************)
(* A model of the ribbon builder of lib/ribbon.js: a polyline and a width   *)
(* are turned into rectangles, stubs and cap fans, and from those into a    *)
(* triangle list and an outline.                                            *)
(*                                                                          *)
(* Numbers.  The program computes in IEEE doubles.  The model computes in   *)
(* exact rationals <<n, d>> (d > 0, lowest terms) and draws its inputs from *)
(* headings whose unit vectors are rational (the axes and Pythagorean       *)
(* triples), so that every square root the program takes on these inputs is *)
(* rational and every comparison it makes is decided exactly.  Angles are   *)
(* integers in units of 1/DegUnit degree.                                   *)
(***************************************************************************)
EXTENDS Integers, Sequences, FiniteSets

(***************************************************************************)
(* Bounds of the model.                                                     *)
(***************************************************************************)
MaxPoints == 4
MaxWidth == 2

VARIABLES
  polygon,             \* the argument, then the filtered path (line 47)
  options,             \* the argument: [width |-> <<>> or <<w>>, closed |-> BOOLEAN]
  pc,                  \* the position in the function body
  width, closed,       \* lines 45-46
  centerSegments, leftSegments, rightSegments,        \* step 1
  leftIntersections, rightIntersections,              \* step 2
  leftStarts, rightStarts, leftEnds, rightEnds,       \* step 3
  rectangles, stubs, capSupports,
  i,                   \* the index of the loop the function is in
  triangles, outline,
  joints,              \* per joint: the locals of the step 3 loop body
  fans,                \* per cap support: the locals of its forEach callback
  result               \* "none", "error" (thrown) or "mesh" (returned)

vars == <<polygon, options, pc, width, closed, centerSegments, leftSegments,
          rightSegments, leftIntersections, rightIntersections, leftStarts,
          rightStarts, leftEnds, rightEnds, rectangles, stubs, capSupports,
          i, triangles, outline, joints, fans, result>>

(***************************************************************************)
(* Exact rational arithmetic.                                               *)
(***************************************************************************)
Abs(x) == IF x < 0 THEN -x ELSE x

RECURSIVE GCD(_, _)
GCD(a, b) == IF b = 0 THEN a ELSE GCD(b, a % b)

LCM(a, b) == (a \div GCD(a, b)) * b

Rat(n, d) ==
  LET s == IF d < 0 THEN -1 ELSE 1
      g == GCD(Abs(n), Abs(d))
  IN  <<(s * n) \div g, (s * d) \div g>>

Num(n) == <<n, 1>>

RAdd(a, b) ==
  IF a[2] = b[2]
  THEN IF a[2] = 1 THEN <<a[1] + b[1], 1>> ELSE Rat(a[1] + b[1], a[2])
  ELSE LET l == LCM(a[2], b[2])
       IN  Rat(a[1] * (l \div a[2]) + b[1] * (l \div b[2]), l)

RNeg(a) == <<-a[1], a[2]>>

RSub(a, b) == RAdd(a, RNeg(b))

\* factors cancelled crosswise first, so the product is in lowest terms
RMul(a, b) ==
  IF a[1] = 0 \/ b[1] = 0 THEN <<0, 1>>
  ELSE IF a[2] = 1 /\ b[2] = 1 THEN <<a[1] * b[1], 1>>
  ELSE LET g1 == GCD(Abs(a[1]), b[2])
           g2 == GCD(Abs(b[1]), a[2])
       IN  <<(a[1] \div g1) * (b[1] \div g2), (a[2] \div g2) * (b[2] \div g1)>>

RDiv(a, b) == RMul(a, Rat(b[2], b[1]))

RLess(a, b) ==
  LET l == LCM(a[2], b[2])
  IN  a[1] * (l \div a[2]) < b[1] * (l \div b[2])

RSign(a) == IF a[1] > 0 THEN 1 ELSE IF a[1] < 0 THEN -1 ELSE 0

RECURSIVE SqrtSearch(_, _, _)
SqrtSearch(n, lo, hi) ==
  IF lo >= hi THEN lo
  ELSE LET mid == (lo + hi + 1) \div 2
       IN  IF mid * mid <= n THEN SqrtSearch(n, mid, hi)
           ELSE SqrtSearch(n, lo, mid - 1)

\* floor of the square root of a natural number below 2^30
ISqrt(n) ==
  IF n <= 1 THEN n
  ELSE IF n < 2^8 THEN SqrtSearch(n, 1, 2^4)
  ELSE IF n < 2^16 THEN SqrtSearch(n, 2^4, 2^8)
  ELSE SqrtSearch(n, 2^8, 2^15)

IsSquare(n) == ISqrt(n) * ISqrt(n) = n

\* Math.sqrt on a rational that is a perfect square
RSqrt(a) == <<ISqrt(a[1]), ISqrt(a[2])>>


(***************************************************************************)
(* length(a) < length(b), decided on the squared lengths (Math.sqrt is      *)
(* strictly increasing on them).  The squares are summed in base-2^12 limbs *)
(* so that no intermediate value leaves the 32-bit integers of the checker. *)
(***************************************************************************)
Base == 2^12

ScaleTo(v, l) == [k \in 1..3 |-> Abs(v[k][1]) * (l \div v[k][2])]

VecDen(v) == LCM(v[1][2], LCM(v[2][2], v[3][2]))

SumSq(c) ==
  LET h(k) == c[k] \div Base
      l(k) == c[k] % Base
      H2 == h(1) * h(1) + h(2) * h(2) + h(3) * h(3)
      HL == h(1) * l(1) + h(2) * l(2) + h(3) * l(3)
      L2 == l(1) * l(1) + l(2) * l(2) + l(3) * l(3)
      mid == 2 * HL + (L2 \div Base)
  IN  <<H2 + (mid \div Base), mid % Base, L2 % Base>>

LimbsLess(s, t) ==
  \/ s[1] < t[1]
  \/ s[1] = t[1] /\ s[2] < t[2]
  \/ s[1] = t[1] /\ s[2] = t[2] /\ s[3] < t[3]

lengthBelow(a, b) ==
  LET l == LCM(VecDen(a), VecDen(b))
  IN  LimbsLess(SumSq(ScaleTo(a, l)), SumSq(ScaleTo(b, l)))

\* the values length(a) < length(b) can take.  The program computes both
\* lengths in doubles: when the exact lengths differ the comparison is the
\* exact one, when they are equal the rounding errors decide it and either
\* value can come out.
lengthLess(a, b) ==
  IF lengthBelow(a, b) THEN {TRUE}
  ELSE IF lengthBelow(b, a) THEN {FALSE}
  ELSE BOOLEAN

(***************************************************************************)
(* The vec3 operations the builder imports (lines 4-11).                    *)
(***************************************************************************)
Pt(x, y, z) == <<Num(x), Num(y), Num(z)>>

add(a, b) == <<RAdd(a[1], b[1]), RAdd(a[2], b[2]), RAdd(a[3], b[3])>>

sub(a, b) == <<RSub(a[1], b[1]), RSub(a[2], b[2]), RSub(a[3], b[3])>>

neg(a) == <<RNeg(a[1]), RNeg(a[2]), RNeg(a[3])>>

multiply(a, s) == <<RMul(a[1], Num(s)), RMul(a[2], Num(s)), RMul(a[3], Num(s))>>

cross(a, b) ==
  <<RSub(RMul(a[2], b[3]), RMul(a[3], b[2])),
    RSub(RMul(a[3], b[1]), RMul(a[1], b[3])),
    RSub(RMul(a[1], b[2]), RMul(a[2], b[1]))>>

length(a) ==
  RSqrt(RAdd(RMul(a[1], a[1]), RAdd(RMul(a[2], a[2]), RMul(a[3], a[3]))))

norm(a) ==
  LET l == length(a)
  IN  <<RDiv(a[1], l), RDiv(a[2], l), RDiv(a[3], l)>>

ZAxis == Pt(0, 0, 1)

(***************************************************************************)
(* class LineSegment (lines 16-25).                                         *)
(***************************************************************************)
LineSegment(from, to) ==
  [from |-> from, to |-> to,
   direction |-> norm(sub(to, from)),
   length |-> length(sub(to, from))]

(***************************************************************************)
(* The inputs.  A path starts at the origin and continues by the moves      *)
(* below: three axis headings, a short move, a Pythagorean heading within   *)
(* 10 degrees of the +X axis and a move that climbs in Z.  A path never     *)
(* doubles back on the segment before it.                                   *)
(***************************************************************************)
Moves ==
  << <<10, 0, 0>>, <<0, 10, 0>>, <<-10, 0, 0>>, <<0, 1, 0>>,
     <<143, 24, 0>>, <<-4, 3, 12>> >>

DoublesBack(m, n) ==
  /\ m[1] * n[2] - m[2] * n[1] = 0
  /\ m[1] * n[1] + m[2] * n[2] < 0

MoveSeqs ==
  {ms \in UNION {[1..k -> 1..Len(Moves)] : k \in 0..(MaxPoints - 1)} :
     \A k \in 1..(Len(ms) - 1) : ~DoublesBack(Moves[ms[k]], Moves[ms[k + 1]])}

RECURSIVE PathOf(_)
PathOf(ms) ==
  IF Len(ms) = 0 THEN <<Pt(0, 0, 0)>>
  ELSE LET head == PathOf(SubSeq(ms, 1, Len(ms) - 1))
           m == Moves[ms[Len(ms)]]
       IN  Append(head, add(head[Len(head)], Pt(m[1], m[2], m[3])))

Polygons == {<<>>} \cup {PathOf(ms) : ms \in MoveSeqs}

Options ==
  [width : {<<>>} \cup {<<w>> : w \in -1..MaxWidth}, closed : BOOLEAN]

(***************************************************************************)
(* The joi schemas of lines 37-43: an array of at least 2 items, and an     *)
(* options object whose width is a required number greater than 0.          *)
(***************************************************************************)
polygonSchema(p) == Len(p) >= 2

\* a bug: joi.number().min(0) in place of greater(0)
optionsSchemaMin0(o) == Len(o.width) = 1 /\ o.width[1] >= 0

optionsSchema(o) == Len(o.width) = 1 /\ o.width[1] > 0

(***************************************************************************)
(* removeParallel2D: an interior point that is collinear, in the XY         *)
(* projection, with its predecessor and its successor is dropped; the two   *)
(* end points are kept.                                                     *)
(***************************************************************************)
Collinear2D(a, b, c) ==
  LET u == sub(b, a)
      v == sub(c, b)
  IN  RSub(RMul(u[1], v[2]), RMul(u[2], v[1])) = Num(0)

RECURSIVE KeepFrom(_, _)
KeepFrom(p, k) ==
  IF k > Len(p) THEN <<>>
  ELSE IF k > 1 /\ k < Len(p) /\ Collinear2D(p[k - 1], p[k], p[k + 1])
       THEN KeepFrom(p, k + 1)
       ELSE <<p[k]>> \o KeepFrom(p, k + 1)

removeParallel2D(p) == KeepFrom(p, 1)

(***************************************************************************)
(* intersect2D: the point where the infinite lines through l1 and through   *)
(* l2 meet in the XY plane, with Z = 0.                                     *)
(***************************************************************************)
intersect2D(l1, l2) ==
  LET r == sub(l1[2], l1[1])
      s == sub(l2[2], l2[1])
      q == sub(l2[1], l1[1])
      den == RSub(RMul(r[1], s[2]), RMul(r[2], s[1]))
      t == RDiv(RSub(RMul(q[1], s[2]), RMul(q[2], s[1])), den)
  IN  <<RAdd(l1[1][1], RMul(t, r[1])), RAdd(l1[1][2], RMul(t, r[2])), Num(0)>>

(***************************************************************************)
(* Step 1 (lines 53-71): the center segments and their two offsets.         *)
(***************************************************************************)
CenterSegmentsOf(p) ==
  [k \in 1..(Len(p) - 1) |-> LineSegment(p[k], p[k + 1])]

offsetDirOf(centerSegment) == norm(cross(ZAxis, centerSegment.direction))

LeftSegmentOf(centerSegment, w) ==
  LET offsetDir == offsetDirOf(centerSegment)
  IN  LineSegment(add(centerSegment.from, multiply(offsetDir, w)),
                  add(centerSegment.to, multiply(offsetDir, w)))

RightSegmentOf(centerSegment, w) ==
  LET offsetDir == offsetDirOf(centerSegment)
  IN  LineSegment(add(centerSegment.from, multiply(offsetDir, -w)),
                  add(centerSegment.to, multiply(offsetDir, -w)))

LeftSegmentsOf(segs, w) ==
  [k \in 1..Len(segs) |-> LeftSegmentOf(segs[k], w)]

RightSegmentsOf(segs, w) ==
  [k \in 1..Len(segs) |-> RightSegmentOf(segs[k], w)]

(***************************************************************************)
(* Step 2 (lines 74-87): the intersections of consecutive offset segments,  *)
(* their Z set to 0.                                                        *)
(***************************************************************************)
SetZ0(p) == <<p[1], p[2], Num(0)>>

IntersectionsOf(segs) ==
  [k \in 1..(Len(segs) - 1) |->
     SetZ0(intersect2D(<<segs[k].from, segs[k].to>>,
                       <<segs[k + 1].from, segs[k + 1].to>>))]

(***************************************************************************)
(* Step 3 (lines 100-149): one pass of the loop over the joints.            *)
(***************************************************************************)
\* a bug: the comparison the other way round
leftIsLonger(leftIntersection, leftStart, rightIntersection, rightStart) ==
  lengthLess(sub(rightIntersection, rightStart),
             sub(leftIntersection, leftStart))

leftIsShorter(leftIntersection, leftStart, rightIntersection, rightStart) ==
  lengthLess(sub(leftIntersection, leftStart),
             sub(rightIntersection, rightStart))

\* a bug: only the first stub pushed
JointStubsOne(to, insideIntersection, offset1, offset2, w) ==
  << <<insideIntersection,
       to,
       add(to, multiply(offset2, w)),
       add(insideIntersection, multiply(offset2, w * 2))>> >>

\* lines 131-142
JointStubs(to, insideIntersection, offset1, offset2, w) ==
  << <<insideIntersection,
       to,
       add(to, multiply(offset2, w)),
       add(insideIntersection, multiply(offset2, w * 2))>>,
     <<to,
       insideIntersection,
       add(insideIntersection, multiply(offset1, w * 2)),
       add(to, multiply(offset1, w))>> >>

\* a bug: the cap's outer points offset by the full ribbon width
JointCapSupportWide(to, offset1, offset2, w) ==
  <<add(to, multiply(offset2, w * 2)), to, add(to, multiply(offset1, w * 2))>>

\* lines 143-147
JointCapSupport(to, offset1, offset2, w) ==
  <<add(to, multiply(offset2, w)), to, add(to, multiply(offset1, w))>>

\* lines 112-130, the branch taken when leftIsShorter
LeftInside(centerSegment, nextCenterSegment, leftIntersection, w) ==
  LET offset1 == neg(norm(cross(ZAxis, centerSegment.direction)))
      offset2 == neg(norm(cross(ZAxis, nextCenterSegment.direction)))
  IN  [leftIsShorter |-> TRUE,
       offset1 |-> offset1,
       offset2 |-> offset2,
       insideIntersection |-> leftIntersection,
       leftEnd |-> leftIntersection,
       rightEnd |-> add(leftIntersection, multiply(offset1, w * 2)),
       leftStart |-> leftIntersection,
       rightStart |-> add(leftIntersection, multiply(offset2, w * 2))]

\* lines 112-130, the else branch
RightInside(centerSegment, nextCenterSegment, rightIntersection, w) ==
  LET offset2 == norm(cross(ZAxis, centerSegment.direction))
      offset1 == norm(cross(ZAxis, nextCenterSegment.direction))
  IN  [leftIsShorter |-> FALSE,
       offset1 |-> offset1,
       offset2 |-> offset2,
       insideIntersection |-> rightIntersection,
       leftEnd |-> add(rightIntersection, multiply(offset2, w * 2)),
       rightEnd |-> rightIntersection,
       leftStart |-> add(rightIntersection, multiply(offset1, w * 2)),
       rightStart |-> rightIntersection]

\* the locals of one pass of the loop, shorter being the value leftIsShorter
\* took at lines 106-108
Joint(shorter, centerSegment, nextCenterSegment, leftIntersection, rightIntersection, w) ==
  IF shorter
  THEN LeftInside(centerSegment, nextCenterSegment, leftIntersection, w)
  ELSE RightInside(centerSegment, nextCenterSegment, rightIntersection, w)

(***************************************************************************)
(* Lines 154-161: one rectangle per start point.                            *)
(***************************************************************************)
\* a bug: the two end points pushed in the other order
RectanglesOfSwapped(ls, rs, re, le) ==
  [k \in 1..Len(ls) |-> <<ls[k], rs[k], le[k], re[k]>>]

RectanglesOf(ls, rs, re, le) ==
  [k \in 1..Len(ls) |-> <<ls[k], rs[k], re[k], le[k]>>]

(***************************************************************************)
(* Lines 168-190: the triangles and outline points of the rectangles and    *)
(* of the stubs.                                                            *)
(***************************************************************************)
RECURSIVE Flatten(_)
Flatten(ss) == IF Len(ss) = 0 THEN <<>> ELSE Head(ss) \o Flatten(Tail(ss))

QuadTriangles(q) == << <<q[1], q[2], q[3]>>, <<q[1], q[3], q[4]>> >>

RectangleOutline(r) == <<r[2], r[3], r[4], r[1]>>

\* a bug: the end edge taken from the first rectangle too
OpenOutlineFirstOnly(rects) ==
  <<rects[1][1], rects[1][2], rects[1][3], rects[1][4]>>

OpenOutline(rects) ==
  <<rects[1][1], rects[1][2], rects[Len(rects)][3], rects[Len(rects)][4]>>

StubOutline(c) == <<c[3], c[4]>>

(***************************************************************************)
(* Lines 191-220: the fan of one cap support.                               *)
(*                                                                          *)
(* Math.atan2(y, x) / Math.PI * 180 is tabulated for the headings the       *)
(* inputs can give, in units of 1/DegUnit degree, in (-180, 180].           *)
(***************************************************************************)
DegUnit == 10^4

sliceAngle == 10

AngleTable ==
  { <<1, 0, 0>>, <<0, 1, 900000>>, <<-1, 0, 1800000>>, <<0, -1, -900000>>,
    <<3, 4, 531301>>, <<-3, 4, 1268699>>, <<-3, -4, -1268699>>,
    <<3, -4, -531301>>,
    <<4, 3, 368699>>, <<-4, 3, 1431301>>, <<-4, -3, -1431301>>,
    <<4, -3, -368699>>,
    <<-24, 143, 995273>>, <<24, -143, -804727>>,
    <<24, 143, 804727>>, <<-24, -143, -995273>> }

atan2Deg(y, x) ==
  LET e == CHOOSE t \in AngleTable :
             /\ RSub(RMul(x, Num(t[2])), RMul(y, Num(t[1]))) = Num(0)
             /\ RSign(RAdd(RMul(x, Num(t[1])), RMul(y, Num(t[2])))) = 1
  IN  e[3]

\* the k-th intermediate radial point (lines 206-211): p turned by
\* k * sweep / n about the pivot, kept as <<pivot, p, k/n, sweep>>
Rotated(pivot, p, k, n, sweep) ==
  <<pivot[1], pivot[2], pivot[3], p[1], p[2], <<k, n>>, <<sweep, DegUnit>>>>

\* lines 193-197
startAngleOf(cs) ==
  LET a == atan2Deg(RSub(cs[3][2], cs[2][2]), RSub(cs[3][1], cs[2][1]))
  IN  IF a < 0 THEN a + 360 * DegUnit ELSE a

endAngleOf(cs) ==
  LET a == atan2Deg(RSub(cs[1][2], cs[2][2]), RSub(cs[1][1], cs[2][1]))
      e == IF a < 0 THEN a + 360 * DegUnit ELSE a
  IN  IF e = 0 THEN 360 * DegUnit ELSE e

\* a bug: Math.ceil in place of Math.floor
numSlicesCeil(startAngle, endAngle) ==
  -((startAngle - endAngle) \div (sliceAngle * DegUnit))

\* line 200: Math.floor((endAngle - startAngle)/sliceAngle)
numSlicesOf(startAngle, endAngle) ==
  (endAngle - startAngle) \div (sliceAngle * DegUnit)

\* lines 199-213
radialPointsOf(cs, startAngle, endAngle, numSlices) ==
  <<cs[3]>>
  \o [k \in 1..(numSlices - 1) |->
        Rotated(cs[2], sub(cs[3], cs[2]), k, numSlices, endAngle - startAngle)]
  \o <<cs[1]>>

\* lines 215-219
FanTriangles(radialPoints, cs) ==
  [k \in 1..(Len(radialPoints) - 1) |->
     <<radialPoints[k], radialPoints[k + 1], cs[2]>>]

FanOutline(radialPoints) ==
  Flatten([k \in 1..(Len(radialPoints) - 1) |->
             <<radialPoints[k], radialPoints[k + 1]>>])

FanOf(cs, startAngle, endAngle) ==
  [startAngle |-> startAngle,
   endAngle |-> endAngle,
   numSlices |-> numSlicesOf(startAngle, endAngle),
   numIntermediatePoints |-> numSlicesOf(startAngle, endAngle) - 1,
   radialPoints |-> radialPointsOf(cs, startAngle, endAngle,
                                   numSlicesOf(startAngle, endAngle))]

Fan(cs) == FanOf(cs, startAngleOf(cs), endAngleOf(cs))

(***************************************************************************)
(* The whole function on a filtered path, as one value: the same steps the  *)
(* state machine below takes one at a time.                                 *)
(***************************************************************************)
\* lines 100-149: the passes of the loop from joint k on
RECURSIVE JointsFrom(_, _, _, _, _, _)
JointsFrom(k, segs, lefts, rights, w, shorter) ==
  IF k > Len(segs) - 1 THEN <<>>
  ELSE <<Joint(shorter[k], segs[k], segs[k + 1], lefts[k], rights[k], w)>>
       \o JointsFrom(k + 1, segs, lefts, rights, w, shorter)

\* lines 74-149, shorter[k] being the value leftIsShorter took at joint k
JointsOf(segs, ls, rs, w, shorter) ==
  JointsFrom(1, segs, IntersectionsOf(ls), IntersectionsOf(rs), w, shorter)

\* lines 91-161
RectanglesFrom(js, ls, rs) ==
  RectanglesOf(<<ls[1].from>> \o [k \in 1..Len(js) |-> js[k].leftStart],
               <<rs[1].from>> \o [k \in 1..Len(js) |-> js[k].rightStart],
               [k \in 1..Len(js) |-> js[k].rightEnd] \o <<rs[Len(rs)].to>>,
               [k \in 1..Len(js) |-> js[k].leftEnd] \o <<ls[Len(ls)].to>>)

\* lines 131-142
StubsFrom(js, segs, w) ==
  Flatten([k \in 1..Len(js) |->
             JointStubs(segs[k].to, js[k].insideIntersection,
                        js[k].offset1, js[k].offset2, w)])

\* lines 143-147
CapSupportsFrom(js, segs, w) ==
  [k \in 1..Len(js) |->
     JointCapSupport(segs[k].to, js[k].offset1, js[k].offset2, w)]

\* lines 165-220
MeshTriangles(rects, sts, caps) ==
  Flatten([k \in 1..Len(rects) |-> QuadTriangles(rects[k])])
  \o Flatten([k \in 1..Len(sts) |-> QuadTriangles(sts[k])])
  \o Flatten([k \in 1..Len(caps) |->
                FanTriangles(Fan(caps[k]).radialPoints, caps[k])])

MeshOutline(rects, sts, caps, c) ==
  Flatten([k \in 1..Len(rects) |-> RectangleOutline(rects[k])])
  \o (IF ~c THEN OpenOutline(rects) ELSE <<>>)
  \o Flatten([k \in 1..Len(sts) |-> StubOutline(sts[k])])
  \o Flatten([k \in 1..Len(caps) |-> FanOutline(Fan(caps[k]).radialPoints)])

\* lines 224-227
Mesh(rects, sts, caps, c) ==
  [triangles |-> MeshTriangles(rects, sts, caps),
   outline |-> MeshOutline(rects, sts, caps, c)]

\* lines 89-227 from the segments of steps 1 and 2
MeshOfSegments(segs, ls, rs, w, c, shorter) ==
  LET js == JointsOf(segs, ls, rs, w, shorter)
      rects == RectanglesFrom(js, ls, rs) \o <<>>
      sts == StubsFrom(js, segs, w)
      caps == CapSupportsFrom(js, segs, w) \o <<>>
  IN  Mesh(rects, sts, caps, c)

\* lines 53-227 on a path the collinear filter has been through
Ribbon(p, w, c, shorter) ==
  LET segs == CenterSegmentsOf(p) \o <<>>
      ls == LeftSegmentsOf(segs, w) \o <<>>
      rs == RightSegmentsOf(segs, w) \o <<>>
  IN  MeshOfSegments(segs, ls, rs, w, c, shorter)

\* lines 53-108: the values leftIsShorter can take at the first joint
FirstLeftIsShorter(p, w) ==
  LET segs == CenterSegmentsOf(p) \o <<>>
      ls == LeftSegmentsOf(segs, w) \o <<>>
      rs == RightSegmentsOf(segs, w) \o <<>>
  IN  leftIsShorter(IntersectionsOf(ls)[1], ls[1].from,
                    IntersectionsOf(rs)[1], rs[1].from)

(***************************************************************************)
(* The state machine: one call of module.exports(polygon, options).         *)
(***************************************************************************)
Init ==
  /\ polygon \in Polygons
  /\ options \in Options
  /\ pc = "validate"
  /\ width = 0
  /\ closed = FALSE
  /\ centerSegments = <<>>
  /\ leftSegments = <<>>
  /\ rightSegments = <<>>
  /\ leftIntersections = <<>>
  /\ rightIntersections = <<>>
  /\ leftStarts = <<>>
  /\ rightStarts = <<>>
  /\ leftEnds = <<>>
  /\ rightEnds = <<>>
  /\ rectangles = <<>>
  /\ stubs = <<>>
  /\ capSupports = <<>>
  /\ i = 0
  /\ triangles = <<>>
  /\ outline = <<>>
  /\ joints = <<>>
  /\ fans = <<>>
  /\ result = "none"

\* lines 37-43: either schema failing throws out of the function
Validate ==
  /\ pc = "validate"
  /\ IF polygonSchema(polygon) /\ optionsSchema(options)
     THEN pc' = "setup" /\ result' = result
     ELSE pc' = "error" /\ result' = "error"
  /\ UNCHANGED <<polygon, options, width, closed, centerSegments,
                 leftSegments, rightSegments, leftIntersections,
                 rightIntersections, leftStarts, rightStarts, leftEnds,
                 rightEnds, rectangles, stubs, capSupports, i, triangles,
                 outline, joints, fans>>

\* lines 45-47
Setup ==
  /\ pc = "setup"
  /\ width' = options.width[1]
  /\ closed' = options.closed
  /\ polygon' = removeParallel2D(polygon)
  /\ pc' = "step1"
  /\ UNCHANGED <<options, centerSegments, leftSegments, rightSegments,
                 leftIntersections, rightIntersections, leftStarts,
                 rightStarts, leftEnds, rightEnds, rectangles, stubs,
                 capSupports, i, triangles, outline, joints, fans, result>>

\* lines 53-71
Step1 ==
  /\ pc = "step1"
  /\ centerSegments' = CenterSegmentsOf(polygon)
  /\ leftSegments' = LeftSegmentsOf(centerSegments', width)
  /\ rightSegments' = RightSegmentsOf(centerSegments', width)
  /\ pc' = "step2"
  /\ UNCHANGED <<polygon, options, width, closed, leftIntersections,
                 rightIntersections, leftStarts, rightStarts, leftEnds,
                 rightEnds, rectangles, stubs, capSupports, i, triangles,
                 outline, joints, fans, result>>

\* lines 74-87
Step2 ==
  /\ pc = "step2"
  /\ leftIntersections' = IntersectionsOf(leftSegments)
  /\ rightIntersections' = IntersectionsOf(rightSegments)
  /\ pc' = "step3"
  /\ UNCHANGED <<polygon, options, width, closed, centerSegments,
                 leftSegments, rightSegments, leftStarts, rightStarts,
                 leftEnds, rightEnds, rectangles, stubs, capSupports, i,
                 triangles, outline, joints, fans, result>>

\* lines 91-98
BeginStep3 ==
  /\ pc = "step3"
  /\ leftStarts' = <<leftSegments[1].from>>
  /\ rightStarts' = <<rightSegments[1].from>>
  /\ i' = 0
  /\ pc' = "joints"
  /\ UNCHANGED <<polygon, options, width, closed, centerSegments,
                 leftSegments, rightSegments, leftIntersections,
                 rightIntersections, leftEnds, rightEnds, rectangles, stubs,
                 capSupports, triangles, outline, joints, fans, result>>

\* lines 100-149, one pass: joint i (counted from 0, as the program does)
JointPass ==
  /\ pc = "joints"
  /\ i < Len(centerSegments) - 1
  /\ \E shorter \in leftIsShorter(leftIntersections[i + 1], leftStarts[i + 1],
                                   rightIntersections[i + 1],
                                   rightStarts[i + 1]) :
     LET j == Joint(shorter, centerSegments[i + 1], centerSegments[i + 2],
                    leftIntersections[i + 1], rightIntersections[i + 1],
                    width)
     IN  /\ leftEnds' = Append(leftEnds, j.leftEnd)
         /\ rightEnds' = Append(rightEnds, j.rightEnd)
         /\ leftStarts' = Append(leftStarts, j.leftStart)
         /\ rightStarts' = Append(rightStarts, j.rightStart)
         /\ stubs' = stubs \o JointStubs(centerSegments[i + 1].to,
                                         j.insideIntersection,
                                         j.offset1, j.offset2, width)
         /\ capSupports' = Append(capSupports,
                                  JointCapSupport(centerSegments[i + 1].to,
                                                  j.offset1, j.offset2, width))
         /\ joints' = Append(joints, j)
  /\ i' = i + 1
  /\ UNCHANGED <<polygon, options, pc, width, closed, centerSegments,
                 leftSegments, rightSegments, leftIntersections,
                 rightIntersections, rectangles, triangles, outline, fans,
                 result>>

\* the loop's exit, and lines 151-161
BuildRectangles ==
  /\ pc = "joints"
  /\ i >= Len(centerSegments) - 1
  /\ leftEnds' = Append(leftEnds, leftSegments[Len(leftSegments)].to)
  /\ rightEnds' = Append(rightEnds, rightSegments[Len(rightSegments)].to)
  /\ rectangles' = RectanglesOf(leftStarts, rightStarts, rightEnds', leftEnds')
  /\ pc' = "rectangles"
  /\ UNCHANGED <<polygon, options, width, closed, centerSegments,
                 leftSegments, rightSegments, leftIntersections,
                 rightIntersections, leftStarts, rightStarts, stubs,
                 capSupports, i, triangles, outline, joints, fans, result>>

\* lines 165-175
EmitRectangles ==
  /\ pc = "rectangles"
  /\ triangles' = Flatten([k \in 1..Len(rectangles) |->
                             QuadTriangles(rectangles[k])])
  /\ outline' = Flatten([k \in 1..Len(rectangles) |->
                           RectangleOutline(rectangles[k])])
  /\ pc' = "closing"
  /\ UNCHANGED <<polygon, options, width, closed, centerSegments,
                 leftSegments, rightSegments, leftIntersections,
                 rightIntersections, leftStarts, rightStarts, leftEnds,
                 rightEnds, rectangles, stubs, capSupports, i, joints, fans,
                 result>>

\* lines 177-182
CloseOutline ==
  /\ pc = "closing"
  /\ outline' = IF ~closed THEN outline \o OpenOutline(rectangles)
                ELSE outline
  /\ pc' = "stubs"
  /\ UNCHANGED <<polygon, options, width, closed, centerSegments,
                 leftSegments, rightSegments, leftIntersections,
                 rightIntersections, leftStarts, rightStarts, leftEnds,
                 rightEnds, rectangles, stubs, capSupports, i, triangles,
                 joints, fans, result>>

\* lines 185-190
EmitStubs ==
  /\ pc = "stubs"
  /\ triangles' = triangles \o Flatten([k \in 1..Len(stubs) |->
                                          QuadTriangles(stubs[k])])
  /\ outline' = outline \o Flatten([k \in 1..Len(stubs) |->
                                      StubOutline(stubs[k])])
  /\ i' = 0
  /\ pc' = "caps"
  /\ UNCHANGED <<polygon, options, width, closed, centerSegments,
                 leftSegments, rightSegments, leftIntersections,
                 rightIntersections, leftStarts, rightStarts, leftEnds,
                 rightEnds, rectangles, stubs, capSupports, joints, fans,
                 result>>

\* lines 192-220, the callback on cap support i (counted from 0)
CapFan ==
  /\ pc = "caps"
  /\ i < Len(capSupports)
  /\ fans' = Append(fans, Fan(capSupports[i + 1]))
  /\ triangles' = triangles \o FanTriangles(fans'[i + 1].radialPoints,
                                            capSupports[i + 1])
  /\ outline' = outline \o FanOutline(fans'[i + 1].radialPoints)
  /\ i' = i + 1
  /\ UNCHANGED <<polygon, options, pc, width, closed, centerSegments,
                 leftSegments, rightSegments, leftIntersections,
                 rightIntersections, leftStarts, rightStarts, leftEnds,
                 rightEnds, rectangles, stubs, capSupports, joints, result>>

\* lines 224-227
Return ==
  /\ pc = "caps"
  /\ i >= Len(capSupports)
  /\ pc' = "done"
  /\ result' = "mesh"
  /\ UNCHANGED <<polygon, options, width, closed, centerSegments,
                 leftSegments, rightSegments, leftIntersections,
                 rightIntersections, leftStarts, rightStarts, leftEnds,
                 rightEnds, rectangles, stubs, capSupports, i, triangles,
                 outline, joints, fans>>

Next ==
  \/ Validate
  \/ Setup
  \/ Step1
  \/ Step2
  \/ BeginStep3
  \/ JointPass
  \/ BuildRectangles
  \/ EmitRectangles
  \/ CloseOutline
  \/ EmitStubs
  \/ CapFan
  \/ Return

Spec == Init /\ [][Next]_vars

(***************************************************************************)
(* Properties.                                                              *)
(***************************************************************************)
GeometryEmpty ==
  /\ centerSegments = <<>> /\ leftSegments = <<>> /\ rightSegments = <<>>
  /\ leftIntersections = <<>> /\ rightIntersections = <<>>
  /\ leftStarts = <<>> /\ rightStarts = <<>>
  /\ leftEnds = <<>> /\ rightEnds = <<>>
  /\ rectangles = <<>> /\ stubs = <<>> /\ capSupports = <<>>
  /\ joints = <<>> /\ fans = <<>>
  /\ triangles = <<>> /\ outline = <<>>

InvalidInput ==
  \/ Len(polygon) < 2
  \/ options.width = <<>>
  \/ options.width[1] <= 0

\* C1: a call with a path of fewer than 2 points, or with a width that is
\* 0, negative or missing, never leaves validation except by the thrown
\* error: no geometry step has run, and no mesh (no triangle, no outline
\* point) is ever produced.
C1_InvalidInputFailsFirst ==
  InvalidInput =>
    /\ pc \in {"validate", "error"}
    /\ pc = "error" => result = "error"
    /\ result # "mesh"
    /\ GeometryEmpty

C1_Witness ==
  /\ pc = "error" /\ result = "error"
  /\ Len(polygon) >= 2 /\ options.width = <<0>>

TwoPointRectangle(n) ==
  <<add(polygon[1], multiply(n, width)),
    add(polygon[1], multiply(n, -width)),
    add(polygon[2], multiply(n, -width)),
    add(polygon[2], multiply(n, width))>>

TwoPointShape ==
  /\ Len(rectangles) = 1 /\ Len(stubs) = 0
  /\ Len(capSupports) = 0 /\ Len(fans) = 0
  /\ Len(triangles) = 2
  /\ ~closed => Len(outline) = 8
  /\ (polygon = <<Pt(0, 0, 0), Pt(10, 0, 0)>> /\ width = 1) =>
       rectangles[1] = <<Pt(0, 1, 0), Pt(0, -1, 0), Pt(10, -1, 0), Pt(10, 1, 0)>>

\* C2, as amended: a 2-point path with width w gives exactly 1 rectangle,
\* no stub, no cap fan, 2 triangles and (closed = false) 8 outline points,
\* and the rectangle is from+w*n, from-w*n, to-w*n, to+w*n where n is
\* cross((0,0,1), direction) normalized to unit length.
C2_TwoPointPath ==
  (pc = "done" /\ Len(polygon) = 2) =>
    /\ TwoPointShape
    /\ rectangles[1] =
         TwoPointRectangle(norm(cross(ZAxis, norm(sub(polygon[2], polygon[1])))))

\* C2 as stated: n = cross((0,0,1), direction), not normalized.
C2_Original ==
  (pc = "done" /\ Len(polygon) = 2) =>
    /\ TwoPointShape
    /\ rectangles[1] =
         TwoPointRectangle(cross(ZAxis, norm(sub(polygon[2], polygon[1]))))

C2_Witness ==
  /\ pc = "done" /\ Len(polygon) = 2 /\ ~closed
  /\ polygon[2][3] # Num(0)
  /\ Len(outline) = 8

SegmentCount == Len(polygon) - 1

IsPoint(pt) == Len(pt) = 3 /\ \A k \in 1..3 : pt[k][2] > 0

\* C3: a filtered path with N >= 1 center segments gives exactly N
\* rectangles of four points each, 2*(N-1) stubs and N-1 cap supports (and,
\* once the fans are made, N-1 fans); the L-shaped path with width 1 gives
\* 2 rectangles, 2 stubs and 1 cap fan.
C3_Counts ==
  pc \in {"rectangles", "closing", "stubs", "caps", "done"} =>
    /\ Len(rectangles) = SegmentCount
    /\ \A k \in 1..Len(rectangles) :
         Len(rectangles[k]) = 4 /\ \A m \in 1..4 : IsPoint(rectangles[k][m])
    /\ Len(stubs) = 2 * (SegmentCount - 1)
    /\ Len(capSupports) = SegmentCount - 1
    /\ pc = "done" => Len(fans) = SegmentCount - 1
    /\ (pc = "done" /\ width = 1
          /\ polygon = <<Pt(0, 0, 0), Pt(10, 0, 0), Pt(10, 10, 0)>>) =>
         Len(rectangles) = 2 /\ Len(stubs) = 2 /\ Len(fans) = 1

C3_Witness ==
  /\ pc = "done" /\ width = 1
  /\ polygon = <<Pt(0, 0, 0), Pt(10, 0, 0), Pt(10, 10, 0)>>
  /\ Len(rectangles) = 2 /\ Len(stubs) = 2 /\ Len(fans) = 1

Max(a, b) == IF a > b THEN a ELSE b

Sweep(f) == f.endAngle - f.startAngle

\* floor(sweep / 10) with the sweep in 1/DegUnit degree
SweepSlices(f) == Sweep(f) \div (10 * DegUnit)

RECURSIVE FanTriangleSum(_, _)
FanTriangleSum(fs, n) ==
  IF n = 0 THEN 0
  ELSE Max(1, SweepSlices(fs[n])) + FanTriangleSum(fs, n - 1)

RECURSIVE SliceSum(_, _)
SliceSum(fs, n) ==
  IF n = 0 THEN 0 ELSE SweepSlices(fs[n]) + SliceSum(fs, n - 1)

\* C4, as amended: the triangle list holds exactly 2 triangles per
\* rectangle, 2 per stub, and for every cap fan radialPoints.length - 1
\* triangles, where numIntermediatePoints = floor(sweep/10) - 1 and
\* radialPoints.length = max(numIntermediatePoints, 0) + 2: a fan gives
\* max(1, floor(sweep/10)) triangles.  A fan whose sweep is under 10
\* degrees (negative sweeps included) has two radial points and one
\* triangle, and numIntermediatePoints = -1 when the sweep is at least 0
\* and under 10 degrees.
C4_TriangleCounts ==
  /\ pc \in {"closing", "stubs"} => Len(triangles) = 2 * Len(rectangles)
  /\ pc \in {"caps", "done"} =>
       /\ Len(triangles) = 2 * Len(rectangles) + 2 * Len(stubs)
                             + FanTriangleSum(fans, Len(fans))
       /\ \A k \in 1..Len(fans) :
            /\ fans[k].numIntermediatePoints = SweepSlices(fans[k]) - 1
            /\ Len(fans[k].radialPoints) =
                 Max(fans[k].numIntermediatePoints, 0) + 2
            /\ Len(fans[k].radialPoints) - 1 = Max(1, SweepSlices(fans[k]))
            /\ Sweep(fans[k]) < 10 * DegUnit =>
                 Len(fans[k].radialPoints) = 2
            /\ (Sweep(fans[k]) >= 0 /\ Sweep(fans[k]) < 10 * DegUnit) =>
                 fans[k].numIntermediatePoints = -1

\* C4 as stated, on the fans whose sweep is positive: radialPoints.length
\* = numIntermediatePoints + 2 and the fan gives floor(sweep/10) triangles.
C4_Original ==
  (pc \in {"caps", "done"} /\ \A k \in 1..Len(fans) : Sweep(fans[k]) > 0) =>
     /\ Len(triangles) = 2 * Len(rectangles) + 2 * Len(stubs)
                           + SliceSum(fans, Len(fans))
     /\ \A k \in 1..Len(fans) :
          Len(fans[k].radialPoints) = fans[k].numIntermediatePoints + 2

C4_Witness ==
  /\ pc = "done" /\ Len(fans) = 1
  /\ Sweep(fans[1]) > 0 /\ Sweep(fans[1]) < 10 * DegUnit
  /\ fans[1].numIntermediatePoints = -1
  /\ Len(fans[1].radialPoints) = 2
  /\ Len(triangles) = 2 * Len(rectangles) + 2 * Len(stubs) + 1

\* C8 as stated: for every fan the sweep endAngle - startAngle is strictly
\* positive and at most 360 degrees, with both angles normalized, so the
\* slice count is between 0 and 36.
C8_SweepPositive ==
  \A k \in 1..Len(fans) :
    /\ fans[k].startAngle >= 0 /\ fans[k].startAngle < 360 * DegUnit
    /\ fans[k].endAngle > 0 /\ fans[k].endAngle <= 360 * DegUnit
    /\ Sweep(fans[k]) > 0 /\ Sweep(fans[k]) <= 360 * DegUnit
    /\ fans[k].numSlices >= 0 /\ fans[k].numSlices <= 36

\* the sign of a*b - c*d for integers below 2^24 in size, by limbs
MulLimbs(a, b) ==
  LET p0 == (a % Base) * (b % Base)
      p1 == (a \div Base) * (b % Base) + (a % Base) * (b \div Base)
              + (p0 \div Base)
      p2 == (a \div Base) * (b \div Base) + (p1 \div Base)
  IN  <<p2, p1 % Base, p0 % Base>>

Sgn(a) == IF a > 0 THEN 1 ELSE IF a < 0 THEN -1 ELSE 0

MagnitudeCmp(x, y) ==
  IF x = y THEN 0 ELSE IF LimbsLess(x, y) THEN -1 ELSE 1

SignOfDiff(a, b, c, d) ==
  LET sp == Sgn(a) * Sgn(b)
      sq == Sgn(c) * Sgn(d)
  IN  IF sp # sq THEN Sgn(sp - sq)
      ELSE sp * MagnitudeCmp(MulLimbs(Abs(a), Abs(b)), MulLimbs(Abs(c), Abs(d)))

\* the XY part of a vector as a pair of integers, scaled by a positive factor
GCD3(a, b) == IF a = 0 /\ b = 0 THEN 1 ELSE GCD(Abs(a), Abs(b))

Primitive2D(v) ==
  LET d == LCM(v[1][2], v[2][2])
      x == v[1][1] * (d \div v[1][2])
      y == v[2][1] * (d \div v[2][2])
  IN  <<x \div GCD3(x, y), y \div GCD3(x, y)>>

\* sign of the z component of u x v, and of u . v, in the XY plane
CrossSign2D(u, v) ==
  SignOfDiff(Primitive2D(u)[1], Primitive2D(v)[2],
             Primitive2D(u)[2], Primitive2D(v)[1])

DotSign2D(u, v) ==
  SignOfDiff(Primitive2D(u)[1], Primitive2D(v)[1],
             -Primitive2D(u)[2], Primitive2D(v)[2])

\* 1 for a left (counter-clockwise) turn at path vertex k + 1, -1 for a
\* right turn
TurnAt(p, k) == CrossSign2D(sub(p[k + 1], p[k]), sub(p[k + 2], p[k + 1]))

\* the path reflected in the X axis
Mirror(p) == [k \in 1..Len(p) |-> <<p[k][1], RNeg(p[k][2]), p[k][3]>>]

\* C5: for a path with exactly one interior joint and any width > 0, a
\* left bend chooses the left offset intersection as the inside corner and
\* a right bend the right one, and the mirror image of the path chooses
\* the opposite side.
C5_OneJointSide ==
  (pc = "joints" /\ Len(polygon) = 3 /\ Len(joints) = 1) =>
     /\ TurnAt(polygon, 1) # 0
     /\ leftIsShorter(leftIntersections[1], leftStarts[1],
                       rightIntersections[1], rightStarts[1])
          = {TurnAt(polygon, 1) = 1}
     /\ joints[1].leftIsShorter <=> TurnAt(polygon, 1) = 1
     /\ joints[1].insideIntersection =
          (IF TurnAt(polygon, 1) = 1 THEN leftIntersections[1]
           ELSE rightIntersections[1])
     /\ TurnAt(Mirror(polygon), 1) = -TurnAt(polygon, 1)
     /\ FirstLeftIsShorter(Mirror(polygon), width) = {~joints[1].leftIsShorter}

\* a left bend after a first segment shorter than the width
C5_Witness ==
  /\ pc = "joints" /\ Len(joints) = 1 /\ width = 2
  /\ polygon = <<Pt(0, 0, 0), Pt(0, 1, 0), Pt(-10, 1, 0)>>
  /\ joints[1].leftIsShorter
  /\ FirstLeftIsShorter(Mirror(polygon), width) = {FALSE}

\* joint k, where neither the comparison of the distances to the offset
\* segments' from points nor the one the program makes is between two equal
\* lengths
Determinate(k) ==
  /\ leftIsShorter(leftIntersections[k], leftSegments[k].from,
                   rightIntersections[k], rightSegments[k].from) # BOOLEAN
  /\ leftIsShorter(leftIntersections[k], leftStarts[k],
                   rightIntersections[k], rightStarts[k]) # BOOLEAN

\* C7 as stated: at every joint the decision is the comparison of the
\* distances from the two intersections to leftSegment[i].from and
\* rightSegment[i].from, and it selects the left side for a left turn and
\* the right side for a right turn.  Stated on the joints where no comparison
\* is between two equal lengths.
C7_DecisionLocal ==
  \A k \in 1..Len(joints) :
    Determinate(k) =>
      /\ joints[k].leftIsShorter \in
           leftIsShorter(leftIntersections[k], leftSegments[k].from,
                         rightIntersections[k], rightSegments[k].from)
      /\ joints[k].leftIsShorter <=> TurnAt(polygon, k) = 1

Vertices(q) == {q[m] : m \in 1..Len(q)}

JointStubVertices(k) == Vertices(stubs[2 * k - 1]) \cup Vertices(stubs[2 * k])

\* the unit normal of center segment k, pointing to its left
LeftNormal(k) == norm(cross(ZAxis, centerSegments[k].direction))

\* the end of rectangle k and the start of rectangle k + 1 on each side
LeftEndOf(k) == rectangles[k][4]

RightEndOf(k) == rectangles[k][3]

LeftStartOf(k) == rectangles[k][1]

RightStartOf(k) == rectangles[k][2]

InsideLeftJoint(k) ==
  /\ joints[k].insideIntersection = leftIntersections[k]
  /\ LeftEndOf(k) = leftIntersections[k]
  /\ LeftStartOf(k + 1) = leftIntersections[k]
  /\ RightEndOf(k) = add(leftIntersections[k],
                         multiply(neg(LeftNormal(k)), 2 * width))
  /\ RightStartOf(k + 1) = add(leftIntersections[k],
                               multiply(neg(LeftNormal(k + 1)), 2 * width))
  /\ RightEndOf(k) \in JointStubVertices(k)
  /\ RightStartOf(k + 1) \in JointStubVertices(k)

InsideRightJoint(k) ==
  /\ joints[k].insideIntersection = rightIntersections[k]
  /\ RightEndOf(k) = rightIntersections[k]
  /\ RightStartOf(k + 1) = rightIntersections[k]
  /\ LeftEndOf(k) = add(rightIntersections[k],
                        multiply(LeftNormal(k), 2 * width))
  /\ LeftStartOf(k + 1) = add(rightIntersections[k],
                              multiply(LeftNormal(k + 1), 2 * width))
  /\ LeftEndOf(k) \in JointStubVertices(k)
  /\ LeftStartOf(k + 1) \in JointStubVertices(k)

CapSupportAtVertex(k) ==
  /\ capSupports[k][2] = polygon[k + 1]
  /\ length(sub(capSupports[k][1], capSupports[k][2])) = Num(width)
  /\ length(sub(capSupports[k][3], capSupports[k][2])) = Num(width)
  /\ \E m \in {2 * k - 1, 2 * k} : capSupports[k][1] \in Vertices(stubs[m])
  /\ \E m \in {2 * k - 1, 2 * k} : capSupports[k][3] \in Vertices(stubs[m])
  /\ capSupports[k][1] # capSupports[k][3]

\* C9: at every joint, on the inside side rectangle i's end and rectangle
\* i+1's start are both the chosen inside intersection; on the outside side
\* they are the inside intersection displaced by 2*width along the outward
\* normal of segment i and of segment i+1, each a vertex of one of the
\* joint's two stubs; the cap support pivots at the path vertex with both
\* outer points at distance width from it, each a vertex of one stub.
C9_JointGeometry ==
  pc = "done" =>
    \A k \in 1..Len(joints) :
      /\ IF joints[k].leftIsShorter THEN InsideLeftJoint(k)
         ELSE InsideRightJoint(k)
      /\ CapSupportAtVertex(k)

\* a path with a left-inside joint followed by a right-inside joint
C9_Witness ==
  /\ pc = "done" /\ Len(joints) = 2
  /\ joints[1].leftIsShorter /\ ~joints[2].leftIsShorter
  /\ InsideLeftJoint(1) /\ InsideRightJoint(2)
  /\ CapSupportAtVertex(1) /\ CapSupportAtVertex(2)

\* the orientation of a triangle in the XY plane: 1 counter-clockwise, -1
\* clockwise, 0 degenerate.  A triangle with an intermediate radial point
\* is one slice of a fan, turned counter-clockwise by between 10 and 20
\* degrees about the pivot.
Orientation(t) ==
  IF \E m \in 1..3 : Len(t[m]) # 3 THEN 1
  ELSE CrossSign2D(sub(t[2], t[1]), sub(t[3], t[1]))

Orientations == {Orientation(triangles[k]) : k \in 1..Len(triangles)} \ {0}

\* rectangle k's end edge is not behind its start edge along segment k
EndNotBehindStart(k) ==
  /\ DotSign2D(sub(rectangles[k][4], rectangles[k][1]),
               sub(polygon[k + 1], polygon[k])) >= 0
  /\ DotSign2D(sub(rectangles[k][3], rectangles[k][2]),
               sub(polygon[k + 1], polygon[k])) >= 0

\* C10 as stated: all non-degenerate triangles of the output have the
\* orientation of the first rectangle's triangle [leftStart, rightStart,
\* rightEnd], and no rectangle has its end edge behind its start edge along
\* the segment direction.
C10_ConsistentWinding ==
  pc = "done" =>
    /\ Orientations \subseteq
         {Orientation(<<rectangles[1][1], rectangles[1][2], rectangles[1][3]>>)}
    /\ \A k \in 1..Len(rectangles) : EndNotBehindStart(k)

\* the outline with the four points of lines 177-182 taken out
WithoutClosing(o, n) == SubSeq(o, 1, 4 * n) \o SubSeq(o, 4 * n + 5, Len(o))

OpenIsClosedPlusFour(open, shut) ==
  /\ Len(open) = Len(shut) + 4
  /\ WithoutClosing(open, Len(rectangles)) = shut
  /\ SubSeq(open, 4 * Len(rectangles) + 1, 4 * Len(rectangles) + 4)
       = <<rectangles[1][1], rectangles[1][2],
           rectangles[Len(rectangles)][3], rectangles[Len(rectangles)][4]>>

\* C6: for the same path and width, closed = true and closed = false give
\* the same triangle list, and the closed = false outline is the closed =
\* true outline with exactly 4 extra points, the first rectangle's
\* leftStart and rightStart and the last rectangle's rightEnd and leftEnd,
\* all other points the same and in the same order.  The comparisons of
\* lines 106-108 do not read closed, so the other call takes the values
\* this one took.
ShorterTaken == [k \in 1..Len(joints) |-> joints[k].leftIsShorter]

C6_ClosedOnlyOutline ==
  pc = "done" =>
    LET other == Ribbon(polygon, width, ~closed, ShorterTaken)
    IN  /\ triangles = other.triangles
        /\ OpenIsClosedPlusFour(IF closed THEN other.outline ELSE outline,
                                IF closed THEN outline ELSE other.outline)

C6_Witness ==
  /\ pc = "done" /\ ~closed /\ Len(rectangles) = 3 /\ Len(fans) = 2
  /\ triangles = Ribbon(polygon, width, TRUE, ShorterTaken).triangles
  /\ OpenIsClosedPlusFour(outline,
                          Ribbon(polygon, width, TRUE, ShorterTaken).outline)

=============================================================================
